---- MODULE Spec2Model ----
(***************************************************************************)
(* Envelope decryption of utils/decrypt_dataset.py (class                  *)
(* DatasetDecryptor), as a state machine.                                  *)
(*                                                                         *)
(* Representation.                                                         *)
(*   text   a sequence of ASCII codes ("AES-256-GCM" is <<65,69,83,...>>)  *)
(*   bytes  a sequence of units, each a record [k, n, v]: k the kind, n    *)
(*          the number of bytes the unit stands for, v its content.        *)
(*          "byte" is one concrete byte; "blob" is n bytes of opaque       *)
(*          material named v; "sha256", "x25519_pub", "gcm_ct", "gcm_tag"  *)
(*          and "gcm_pt" are the symbolic results of the library           *)
(*          primitives (a perfect hash and a perfect AEAD); "flip" is a    *)
(*          unit with one bit changed.                                     *)
(*   JSON   a record tagged by k: "dict", "list", "str", "num", "null".    *)
(*   an operation's outcome is [ok, val, err, ops]: ops lists the library  *)
(*   calls it attempted, in order.                                         *)
(***************************************************************************)
EXTENDS Integers, Sequences, FiniteSets, TLC

VARIABLES args, pc, self, frame, result, trace, sender

vars == <<args, pc, self, frame, result, trace, sender>>

None == [k |-> "none"]

Ok(v, ops) == [ok |-> TRUE, val |-> v, err |-> None, ops |-> ops]

Raise(e, ops) == [ok |-> FALSE, val |-> None, err |-> e, ops |-> ops]

\* A Python exception: its class, its message, the identifier texts the
\* message shows, and the exception it was built from.
Exc(type, msg) == [type |-> type, msg |-> msg, shown |-> <<>>, cause |-> None]

(***************************************************************************)
(* Bytes and text.                                                         *)
(***************************************************************************)
Byte(c) == [k |-> "byte", n |-> 1, v |-> c]

Blob(name, i, n) == [k |-> "blob", n |-> n, v |-> [name |-> name, i |-> i]]

RECURSIVE ByteLen(_)
ByteLen(b) == IF Len(b) = 0 THEN 0 ELSE Head(b).n + ByteLen(Tail(b))

\* str.encode('utf-8') of ASCII text.
EncodeUtf8(text) == [i \in 1..Len(text) |-> Byte(text[i])]

\* s[:n] of a Python sequence.
Prefix(s, n) == SubSeq(s, 1, IF Len(s) < n THEN Len(s) ELSE n)

IsPrefix(p, s) == Len(p) <= Len(s) /\ SubSeq(s, 1, Len(p)) = p

Reverse(s) == [i \in 1..Len(s) |-> s[Len(s) + 1 - i]]

ASCII_ELLIPSIS == <<46, 46, 46>>

ASCII_COLON == <<58>>

(***************************************************************************)
(* The identities and private credentials the runs are given.              *)
(***************************************************************************)
\* "HZM9WsPvam7CDavWEuRF2qpFbVrHQ8WfD4vPbPuT4TXE" (32 bytes)
IdA ==
  <<72,90,77,57,87,115,80,118,97,109,55,67,68,97,118,87,69,117,82,70,50,113,
    112,70,98,86,114,72,81,56,87,102,68,52,118,80,98,80,117,84,52,84,88,69>>

\* "27CACP3VQDC1PVxuT37sk8L7qsQh8zj9Y3v3jH4CU1KF" (32 bytes)
IdB ==
  <<50,55,67,65,67,80,51,86,81,68,67,49,80,86,120,117,84,51,55,115,107,56,76,
    55,113,115,81,104,56,122,106,57,89,51,118,51,106,72,52,67,85,49,75,70>>

\* IdA with its last character changed (32 bytes, the same first 20
\* characters).
IdA2 == [IdA EXCEPT ![Len(IdA)] = 68]

\* The first 20 characters of IdA (15 bytes).
IdShort == Prefix(IdA, 20)

\* Two private credentials of 64 bytes and one of 32.
Priv1 ==
  <<50,65,110,97,49,112,85,112,118,50,90,98,77,86,107,119,70,53,70,88,97,112,
    89,101,66,69,106,100,120,68,97,116,76,110,55,110,118,74,107,104,103,84,83,
    88,98,115,53,57,83,121,90,83,120,56,54,54,98,88,105,114,80,103,106,56,81,
    81,86,66,53,55,117,120,72,74,66,71,49,89,70,118,107,82,98,70,106,52,84>>

Priv2 ==
  <<51,76,74,110,72,77,118,51,121,103,98,85,76,99,101,114,98,83,70,86,115,107,
    50,74,111,51,51,81,118,56,68,111,121,85,74,81,104,50,69,57,85,90,65,71,89,
    88,99,118,55,89,55,75,71,90,51,104,80,119,53,70,53,106,57,67,57,116,66,104,
    86,99,89,113,105,112,82,110,78,69,117,103,75,86,49,114,110,83,85>>

PrivShort ==
  <<52,119,66,113,112,90,77,57,120,97,83,104,101,90,122,74,83,77,97,119,85,75,
    75,119,104,100,112,67,104,75,98,90,53,101,117,53,107,121,52,86,105,103,119>>

(***************************************************************************)
(* base58.b58decode: strip the leading '1' characters (one zero byte       *)
(* each), read the rest as a base-58 number (acc = acc * 58 + digit),      *)
(* write it big-endian.  The number is kept as little-endian 16-bit limbs  *)
(* and takes two digits at a time, acc * 58^2 + (d1 * 58 + d2), which is   *)
(* the same arithmetic in fewer steps.                                     *)
(***************************************************************************)
B58_ALPHABET ==
  <<49,50,51,52,53,54,55,56,57,65,66,67,68,69,70,71,72,74,75,76,77,78,80,81,
    82,83,84,85,86,87,88,89,90,97,98,99,100,101,102,103,104,105,106,107,109,
    110,111,112,113,114,115,116,117,118,119,120,121,122>>

B58Digit(c) ==
  IF \E i \in 1..Len(B58_ALPHABET) : B58_ALPHABET[i] = c
  THEN (CHOOSE i \in 1..Len(B58_ALPHABET) : B58_ALPHABET[i] = c) - 1
  ELSE -1

B58Base == Len(B58_ALPHABET)

Limb == 256 * 256

\* le * 58^2 + c from limb i on, two limbs a step.
RECURSIVE B58MulAdd(_, _, _)
B58MulAdd(le, i, c) ==
  IF i > Len(le) THEN (IF c = 0 THEN <<>> ELSE <<c>>)
  ELSE CHOOSE r \in
         { IF i = Len(le)
           THEN <<t1 % Limb>> \o (IF t1 \div Limb = 0 THEN <<>> ELSE <<t1 \div Limb>>)
           ELSE LET t2 == le[i + 1] * B58Base * B58Base + t1 \div Limb
                IN  <<t1 % Limb, t2 % Limb>> \o B58MulAdd(le, i + 2, t2 \div Limb)
           : t1 \in {le[i] * B58Base * B58Base + c} } : TRUE

\* The digit pair j of digits d, a 0 put before an odd number of digits.
B58Pair(d, j) ==
  LET off == Len(d) % 2 IN
  (IF 2 * j - 1 - off < 1 THEN 0 ELSE d[2 * j - 1 - off] * B58Base)
  + d[2 * j - off]

\* acc from digit pair j on.  (The one-element set makes TLC compute the
\* new acc once, before it goes on.)
RECURSIVE B58Acc(_, _, _)
B58Acc(d, j, le) ==
  IF 2 * j - (Len(d) % 2) > Len(d) THEN le
  ELSE CHOOSE r \in {B58Acc(d, j + 1, acc) :
                       acc \in {B58MulAdd(le, 1, B58Pair(d, j))}} : TRUE

B58LeadingOnes(text) ==
  IF \A i \in 1..Len(text) : text[i] = B58_ALPHABET[1] THEN Len(text)
  ELSE (CHOOSE i \in 1..Len(text) :
          /\ text[i] # B58_ALPHABET[1]
          /\ \A j \in 1..(i - 1) : text[j] = B58_ALPHABET[1]) - 1

\* The bytes of acc, most significant first, after z zero bytes.
B58Render(z, le) ==
  LET n == IF Len(le) = 0 THEN 0
           ELSE IF le[Len(le)] < 256 THEN 2 * Len(le) - 1 ELSE 2 * Len(le)
  IN  [i \in 1..(z + n) |->
         IF i <= z THEN Byte(0)
         ELSE LET b == n - (i - z)
              IN  Byte((le[b \div 2 + 1] \div (IF b % 2 = 0 THEN 1 ELSE 256)) % 256)]

B58Compute(text) ==
  CHOOSE r \in
    { B58Render(z, B58Acc(d, 1, <<>>)) \o <<>> :
        z \in {B58LeadingOnes(text)},
        d \in {[i \in 1..(Len(text) - B58LeadingOnes(text)) |->
                  B58Digit(text[i + B58LeadingOnes(text)])] \o <<>>} } : TRUE

\* The decodings of the texts above, each computed once.
DecodedIdA == B58Compute(IdA) \o <<>>

DecodedIdB == B58Compute(IdB) \o <<>>

DecodedIdA2 == B58Compute(IdA2) \o <<>>

DecodedIdShort == B58Compute(IdShort) \o <<>>

DecodedPriv1 == B58Compute(Priv1) \o <<>>

DecodedPriv2 == B58Compute(Priv2) \o <<>>

DecodedPrivShort == B58Compute(PrivShort) \o <<>>

B58Bytes(text) ==
  CASE text = IdA       -> DecodedIdA
    [] text = IdB       -> DecodedIdB
    [] text = IdA2      -> DecodedIdA2
    [] text = IdShort   -> DecodedIdShort
    [] text = Priv1     -> DecodedPriv1
    [] text = Priv2     -> DecodedPriv2
    [] text = PrivShort -> DecodedPrivShort
    [] OTHER            -> B58Compute(text)

b58decode(text) ==
  IF \E i \in 1..Len(text) : B58Digit(text[i]) < 0
  THEN Raise(Exc("ValueError", "Invalid character"), <<"b58decode">>)
  ELSE Ok(B58Bytes(text), <<"b58decode">>)

(***************************************************************************)
(* Library primitives, as the code calls them.                             *)
(***************************************************************************)
\* hashlib.sha256(b).digest()
sha256(b) == <<[k |-> "sha256", n |-> 32, v |-> b]>>

\* x25519.X25519PrivateKey.from_private_bytes(seed).public_key()
\*   .public_bytes_raw()
x25519_public_from_seed(seed) == <<[k |-> "x25519_pub", n |-> 32, v |-> seed]>>

\* The GCM keystream applied to body, byte for byte: decrypting what was
\* encrypted under the same key and nonce at the same position gives the
\* plaintext back, anything else gives unrelated bytes.
GcmCtr(key, nonce, body) ==
  [i \in 1..Len(body) |->
     LET u == body[i]
     IN  IF u.k = "gcm_ct" /\ u.v.pos = i /\ u.v.key = key /\ u.v.nonce = nonce
         THEN u.v.p
         ELSE [k |-> "gcm_pt", n |-> u.n,
               v |-> [key |-> key, nonce |-> nonce, pos |-> i, c |-> u]]]

\* The 16-byte GCM tag over body under key and nonce.
GcmTag(key, nonce, body) ==
  [k |-> "gcm_tag", n |-> 16, v |-> [key |-> key, nonce |-> nonce, ct |-> body]]

\* data[:-16] and data[-16:].  A tag is one 16-byte unit; trailing bytes
\* that are not one are 16 bytes that no key authenticates.
GcmBody(data) ==
  IF Len(data) > 0 /\ data[Len(data)].n = 16
  THEN SubSeq(data, 1, Len(data) - 1) ELSE <<>>

GcmTail(data) ==
  IF Len(data) > 0 /\ data[Len(data)].n = 16
  THEN data[Len(data)] ELSE [k |-> "tail16", n |-> 16, v |-> data]

\* AESGCM(key).decrypt(nonce, data, None)
AESGCM_decrypt(key, nonce, data) ==
  IF ByteLen(key) \notin {16, 24, 32}
  THEN Raise(Exc("ValueError", "AESGCM key must be 128, 192, or 256 bits."),
             <<"AESGCM">>)
  ELSE IF ByteLen(nonce) < 8 \/ ByteLen(nonce) > 128
  THEN Raise(Exc("ValueError", "Nonce must be between 8 and 128 bytes"),
             <<"AESGCM", "aesgcm_decrypt">>)
  ELSE IF ByteLen(data) < 16
          \/ GcmTail(data) # GcmTag(key, nonce, GcmBody(data))
  THEN Raise(Exc("InvalidTag", ""), <<"AESGCM", "aesgcm_decrypt">>)
  ELSE Ok(GcmCtr(key, nonce, GcmBody(data)), <<"AESGCM", "aesgcm_decrypt">>)

(***************************************************************************)
(* JSON values, and the Python operations the code applies to them.        *)
(***************************************************************************)
JNull == [k |-> "null"]

JNum(i) == [k |-> "num", v |-> i]

\* A string of plain text.
JStr(text) == [k |-> "str", enc |-> "ascii", v |-> text]

\* A string holding base64 text: whether its padding is correct, how many
\* characters outside the base64 alphabet it carries, and the bytes its
\* alphabet characters encode.
JB64Text(pad, junk, data) ==
  [k |-> "str", enc |-> "b64", v |-> [pad |-> pad, junk |-> junk, data |-> data]]

JB64(data) == JB64Text(TRUE, 0, data)

JList(items) == [k |-> "list", v |-> items]

JDict(m) == [k |-> "dict", v |-> m]

\* base64.b64decode(s), validate=False: characters outside the alphabet are
\* discarded, incorrect padding raises binascii.Error, anything that is not
\* a string raises TypeError.
b64decode(s) ==
  IF s.k # "str"
  THEN Raise(Exc("TypeError", "argument should be a bytes-like object or ASCII string"),
             <<"b64decode">>)
  ELSE IF ~ s.v.pad
  THEN Raise(Exc("binascii.Error", "Incorrect padding"), <<"b64decode">>)
  ELSE Ok(s.v.data, <<"b64decode">>)

\* bytes.decode('utf-8')
utf8_decode(b) ==
  IF b.ok THEN Ok(b.v, <<"utf8_decode">>)
  ELSE Raise(Exc("UnicodeDecodeError", "invalid start byte"), <<"utf8_decode">>)

\* json.loads(text)
json_loads(t) ==
  IF t.ok THEN Ok(t.v, <<"json_loads">>)
  ELSE Raise(Exc("JSONDecodeError", "Expecting value"), <<"json_loads">>)

\* obj[key] for a string key.
Subscript(obj, key) ==
  IF obj.k = "dict"
  THEN IF key \in DOMAIN obj.v THEN Ok(obj.v[key], <<>>)
       ELSE Raise(Exc("KeyError", key), <<>>)
  ELSE Raise(Exc("TypeError", "indices must be integers or object is not subscriptable"),
             <<>>)

FieldText(name) ==
  CASE name = "algo"       -> <<97,108,103,111>>
    [] name = "cipher_iv"  -> <<99,105,112,104,101,114,95,105,118>>
    [] name = "cipher_tag" -> <<99,105,112,104,101,114,95,116,97,103>>
    [] name = "ciphertext" -> <<99,105,112,104,101,114,116,101,120,116>>
    [] name = "wraps"      -> <<119,114,97,112,115>>

IsSubstring(p, s) ==
  \E i \in 0..(Len(s) - Len(p)) : SubSeq(s, i + 1, i + Len(p)) = p

\* name in obj: "yes", "no", or "TypeError" (the object is not a container).
PyIn(name, obj) ==
  CASE obj.k = "dict" -> IF name \in DOMAIN obj.v THEN "yes" ELSE "no"
    [] obj.k = "list" ->
         IF \E i \in 1..Len(obj.v) : obj.v[i] = JStr(FieldText(name))
         THEN "yes" ELSE "no"
    [] obj.k = "str"  -> IF IsSubstring(FieldText(name), obj.v) THEN "yes" ELSE "no"
    [] OTHER          -> "TypeError"

\* len(obj)
PyLen(obj) ==
  CASE obj.k = "list" -> Ok(Len(obj.v), <<>>)
    [] obj.k = "str" /\ obj.enc = "ascii" -> Ok(Len(obj.v), <<>>)
    [] obj.k = "dict" -> Ok(Cardinality(DOMAIN obj.v), <<>>)
    [] OTHER -> Raise(Exc("TypeError", "object has no len()"), <<>>)

\* o2 after o1: o1's failure, or o2 with o1's library calls before its own.
After(o1, o2) == IF o1.ok THEN [o2 EXCEPT !.ops = o1.ops \o @] ELSE o1

(***************************************************************************)
(* class DatasetDecryptor                                                  *)
(***************************************************************************)
KDF_INFO == <<122,100,97,116,97,114,58,99,107,45,119,114,97,112>>

ALGO_AES_256_GCM == <<65,69,83,45,50,53,54,45,71,67,77>>

REQUIRED_FIELDS == <<"algo", "cipher_iv", "cipher_tag", "ciphertext", "wraps">>

_derive_x25519_from_ed25519(ed25519_pubkey) ==
  IF ByteLen(ed25519_pubkey) # 32
  THEN Raise(Exc("ValueError", "Ed25519 public key must be 32 bytes"),
             <<"call:_derive_x25519_from_ed25519">>)
  ELSE LET seed == sha256(ed25519_pubkey)
       IN  Ok(x25519_public_from_seed(seed),
              <<"call:_derive_x25519_from_ed25519", "sha256", "x25519_keygen">>)

\* __init__ deriving the encryption key from the public half of the private
\* credential instead of the public identifier.
Mutant_init_from_private_key(recipient_pubkey, recipient_private_key) ==
  LET pub == b58decode(recipient_pubkey) IN
  IF ~ pub.ok THEN pub
  ELSE IF ByteLen(pub.val) # 32
  THEN Raise(Exc("ValueError", "Invalid public key length"), pub.ops)
  ELSE LET priv == b58decode(recipient_private_key) IN
  IF ~ priv.ok THEN After(pub, priv)
  ELSE IF ByteLen(priv.val) # 64
  THEN Raise(Exc("ValueError", "Invalid private key length"), pub.ops \o priv.ops)
  ELSE LET x == _derive_x25519_from_ed25519(SubSeq(priv.val, 33, 64)) IN
  IF ~ x.ok THEN After(pub, After(priv, x))
  ELSE Ok([recipient_pubkey        |-> recipient_pubkey,
           ed25519_public_key      |-> pub.val,
           recipient_x25519_pubkey |-> x.val],
          pub.ops \o priv.ops \o x.ops)

\* __init__: the object's fields on success.
DatasetDecryptor_init(recipient_pubkey, recipient_private_key) ==
  LET pub == b58decode(recipient_pubkey) IN
  IF ~ pub.ok THEN pub
  ELSE IF ByteLen(pub.val) # 32
  THEN Raise(Exc("ValueError", "Invalid public key length"), pub.ops)
  ELSE LET priv == b58decode(recipient_private_key) IN
  IF ~ priv.ok THEN After(pub, priv)
  ELSE IF ByteLen(priv.val) # 64
  THEN Raise(Exc("ValueError", "Invalid private key length"), pub.ops \o priv.ops)
  ELSE LET x == _derive_x25519_from_ed25519(pub.val) IN
  IF ~ x.ok THEN After(pub, After(priv, x))
  ELSE Ok([recipient_pubkey        |-> recipient_pubkey,
           ed25519_public_key      |-> pub.val,
           recipient_x25519_pubkey |-> x.val],
          pub.ops \o priv.ops \o x.ops)

\* The first required field that `field not in envelope` reports, or the
\* TypeError of the membership test.
RECURSIVE CheckRequired(_, _)
CheckRequired(envelope, i) ==
  IF i > Len(REQUIRED_FIELDS) THEN Ok(envelope, <<>>)
  ELSE LET has == PyIn(REQUIRED_FIELDS[i], envelope) IN
       CASE has = "TypeError" ->
              Raise(Exc("TypeError", "argument is not iterable"), <<>>)
         [] has = "no" ->
              Raise([Exc("ValueError", "Missing required field")
                       EXCEPT !.shown = <<FieldText(REQUIRED_FIELDS[i])>>], <<>>)
         [] has = "yes" -> CheckRequired(envelope, i + 1)

\* The try block without its check of envelope['algo'].
Mutant_ParseBody_any_algo(encrypted_aes_key_base64) ==
  LET raw == b64decode(encrypted_aes_key_base64) IN
  IF ~ raw.ok THEN raw ELSE
  LET str == utf8_decode(raw.val) IN
  IF ~ str.ok THEN After(raw, str) ELSE
  LET doc == json_loads(str.val) IN
  IF ~ doc.ok THEN After(raw, After(str, doc)) ELSE
  LET ops == raw.ops \o str.ops \o doc.ops
      req == CheckRequired(doc.val, 1) IN
  IF ~ req.ok THEN Raise(req.err, ops) ELSE
  LET n == PyLen(doc.val.v["wraps"]) IN
  IF ~ n.ok THEN Raise(n.err, ops)
  ELSE Ok(doc.val, ops)

\* The body of the try block of _parse_envelope.
ParseBody(encrypted_aes_key_base64) ==
  LET raw == b64decode(encrypted_aes_key_base64) IN
  IF ~ raw.ok THEN raw ELSE
  LET str == utf8_decode(raw.val) IN
  IF ~ str.ok THEN After(raw, str) ELSE
  LET doc == json_loads(str.val) IN
  IF ~ doc.ok THEN After(raw, After(str, doc)) ELSE
  LET ops == raw.ops \o str.ops \o doc.ops
      req == CheckRequired(doc.val, 1) IN
  IF ~ req.ok THEN Raise(req.err, ops) ELSE
  LET algo == Subscript(doc.val, "algo") IN
  IF ~ algo.ok THEN Raise(algo.err, ops) ELSE
  IF algo.val # JStr(ALGO_AES_256_GCM)
  THEN Raise(Exc("ValueError", "Unsupported algorithm"), ops) ELSE
  LET n == PyLen(doc.val.v["wraps"]) IN
  IF ~ n.ok THEN Raise(n.err, ops)
  ELSE Ok(doc.val, ops)

\* _parse_envelope without its except clause: the failure of the try block
\* leaves as it is.
Mutant_parse_envelope_no_except(encrypted_aes_key_base64) ==
  ParseBody(encrypted_aes_key_base64)

\* except Exception as e: raise ValueError(f"Failed to parse ...: {e}")
_parse_envelope(encrypted_aes_key_base64) ==
  LET body == ParseBody(encrypted_aes_key_base64) IN
  IF body.ok THEN body
  ELSE Raise([Exc("ValueError", "Failed to parse encryption envelope")
                EXCEPT !.cause = body.err], body.ops)

\* The text the error message shows for one wrap record:
\* w['recipient_solana_pub58'][:20] + '...'
ShownRecipient(w) ==
  LET id == Subscript(w, "recipient_solana_pub58") IN
  IF ~ id.ok THEN id
  ELSE IF id.val.k # "str"
  THEN Raise(Exc("TypeError", "object is not subscriptable"), <<>>)
  ELSE Ok(Prefix(id.val.v, 20) \o ASCII_ELLIPSIS, <<>>)

\* The list comprehension of the error message, from record i on.
RECURSIVE AvailableRecipients(_, _)
AvailableRecipients(wraps, i) ==
  IF i > Len(wraps) THEN Ok(<<>>, <<>>)
  ELSE LET one == ShownRecipient(wraps[i]) IN
       IF ~ one.ok THEN one
       ELSE LET rest == AvailableRecipients(wraps, i + 1) IN
            IF ~ rest.ok THEN rest ELSE Ok(<<one.val>> \o rest.val, <<>>)

\* raise ValueError(f"No key wrap found for recipient {self.recipient_pubkey}.
\*                    Available recipients: {[...]}")
NoKeyWrapFound(recipient_pubkey, wraps) ==
  LET avail == AvailableRecipients(wraps, 1) IN
  IF ~ avail.ok THEN avail
  ELSE Raise([Exc("ValueError", "No key wrap found for recipient")
                EXCEPT !.shown = <<recipient_pubkey>> \o avail.val], <<>>)

\* The for loop of _find_recipient_wrap, from record i on.
RECURSIVE FindFrom(_, _, _)
FindFrom(recipient_pubkey, wraps, i) ==
  IF i > Len(wraps) THEN NoKeyWrapFound(recipient_pubkey, wraps)
  ELSE LET id == Subscript(wraps[i], "recipient_solana_pub58") IN
       IF ~ id.ok THEN id
       ELSE IF id.val = JStr(recipient_pubkey) THEN Ok(wraps[i], <<>>)
       ELSE FindFrom(recipient_pubkey, wraps, i + 1)

\* _find_recipient_wrap keeping the last record that matches.
Mutant_find_recipient_wrap_last(obj, envelope) ==
  LET found == FindFrom(obj.recipient_pubkey, Reverse(envelope.v["wraps"].v), 1)
  IN  IF found.ok THEN found
      ELSE FindFrom(obj.recipient_pubkey, envelope.v["wraps"].v, 1)

_find_recipient_wrap(obj, envelope) ==
  FindFrom(obj.recipient_pubkey, envelope.v["wraps"].v, 1)

\* The derivation with the two halves of combined_material exchanged.
Mutant_WrappingKeyBytes_swapped(ephemeral_secret, recipient_x25519_pubkey, recipient_pubkey) ==
  LET combined_material == recipient_x25519_pubkey \o ephemeral_secret
      first_hash        == sha256(combined_material)
      info_string       == KDF_INFO \o ASCII_COLON \o Prefix(recipient_pubkey, 8)
      kdf_info          == EncodeUtf8(info_string)
      final_material    == first_hash \o kdf_info
  IN  sha256(final_material)

\* The double SHA-256 of _derive_wrapping_key, on the decoded ephemeral value.
WrappingKeyBytes(ephemeral_secret, recipient_x25519_pubkey, recipient_pubkey) ==
  LET combined_material == ephemeral_secret \o recipient_x25519_pubkey
      first_hash        == sha256(combined_material)
      info_string       == KDF_INFO \o ASCII_COLON \o Prefix(recipient_pubkey, 8)
      kdf_info          == EncodeUtf8(info_string)
      final_material    == first_hash \o kdf_info
  IN  sha256(final_material)

_derive_wrapping_key(obj, wrap) ==
  LET field == Subscript(wrap, "eph_pub") IN
  IF ~ field.ok THEN field ELSE
  LET ephemeral_secret == b64decode(field.val) IN
  IF ~ ephemeral_secret.ok THEN ephemeral_secret ELSE
  IF ByteLen(ephemeral_secret.val) # 32
  THEN Raise(Exc("ValueError", "Invalid ephemeral secret length"),
             ephemeral_secret.ops)
  ELSE Ok(WrappingKeyBytes(ephemeral_secret.val, obj.recipient_x25519_pubkey,
                           obj.recipient_pubkey),
          ephemeral_secret.ops \o <<"sha256", "sha256">>)

_decrypt_content_key(wrap, wrapping_key) ==
  LET f1 == Subscript(wrap, "wrapped_ck") IN
  IF ~ f1.ok THEN f1 ELSE
  LET wrapped_ck == b64decode(f1.val) IN
  IF ~ wrapped_ck.ok THEN wrapped_ck ELSE
  LET f2 == Subscript(wrap, "wrap_nonce") IN
  IF ~ f2.ok THEN Raise(f2.err, wrapped_ck.ops) ELSE
  LET wrap_nonce == b64decode(f2.val) IN
  IF ~ wrap_nonce.ok THEN After(wrapped_ck, wrap_nonce) ELSE
  After(wrapped_ck,
        After(wrap_nonce,
              AESGCM_decrypt(wrapping_key, wrap_nonce.val, wrapped_ck.val)))

\* _decrypt_data with a cipher that does not authenticate (AES-CTR): the
\* keystream is applied and the tag is not looked at.
Mutant_decrypt_data_unauthenticated(envelope, content_key) ==
  LET ciphertext == b64decode(envelope.v["ciphertext"]) IN
  IF ~ ciphertext.ok THEN ciphertext ELSE
  LET nonce == b64decode(envelope.v["cipher_iv"]) IN
  IF ~ nonce.ok THEN After(ciphertext, nonce) ELSE
  LET tag == b64decode(envelope.v["cipher_tag"]) IN
  IF ~ tag.ok THEN After(ciphertext, After(nonce, tag)) ELSE
  Ok(GcmCtr(content_key, nonce.val, ciphertext.val),
     ciphertext.ops \o nonce.ops \o tag.ops \o <<"AESGCM", "aesgcm_decrypt">>)

\* _decrypt_data with the tag put before the ciphertext.
Mutant_decrypt_data_tag_first(envelope, content_key) ==
  LET ciphertext == b64decode(envelope.v["ciphertext"]) IN
  IF ~ ciphertext.ok THEN ciphertext ELSE
  LET nonce == b64decode(envelope.v["cipher_iv"]) IN
  IF ~ nonce.ok THEN After(ciphertext, nonce) ELSE
  LET tag == b64decode(envelope.v["cipher_tag"]) IN
  IF ~ tag.ok THEN After(ciphertext, After(nonce, tag)) ELSE
  After(ciphertext,
        After(nonce,
              After(tag,
                    AESGCM_decrypt(content_key, nonce.val,
                                   tag.val \o ciphertext.val))))

_decrypt_data(envelope, content_key) ==
  LET ciphertext == b64decode(envelope.v["ciphertext"]) IN
  IF ~ ciphertext.ok THEN ciphertext ELSE
  LET nonce == b64decode(envelope.v["cipher_iv"]) IN
  IF ~ nonce.ok THEN After(ciphertext, nonce) ELSE
  LET tag == b64decode(envelope.v["cipher_tag"]) IN
  IF ~ tag.ok THEN After(ciphertext, After(nonce, tag)) ELSE
  LET ciphertext_with_tag == ciphertext.val \o tag.val IN
  After(ciphertext,
        After(nonce,
              After(tag,
                    AESGCM_decrypt(content_key, nonce.val, ciphertext_with_tag))))

(***************************************************************************)
(* The encrypting party: the derivation chain and envelope layout that     *)
(* decrypt_dataset is written to match.                                    *)
(***************************************************************************)
\* derived encryption key = KeyDeriver(identity)
Enc_KeyDeriver(identity_text) ==
  <<[k |-> "x25519_pub", n |-> 32,
     v |-> <<[k |-> "sha256", n |-> 32, v |-> b58decode(identity_text).val]>>]>>

\* wrapping key = SHA-256(SHA-256(ephemeral || derived) || label ":" id[:8])
Enc_WrappingKey(ephemeral, derived, identity_text) ==
  LET hash1 == <<[k |-> "sha256", n |-> 32, v |-> ephemeral \o derived]>>
      info  == [i \in 1..(Len(KDF_INFO) + 1 + 8) |->
                  IF i <= Len(KDF_INFO) THEN Byte(KDF_INFO[i])
                  ELSE IF i = Len(KDF_INFO) + 1 THEN Byte(58)
                  ELSE Byte(identity_text[i - Len(KDF_INFO) - 1])]
  IN  <<[k |-> "sha256", n |-> 32, v |-> hash1 \o info]>>

\* AES-256-GCM encryption: the ciphertext, as long as the plaintext, and the
\* 16-byte tag.
GcmEncrypt(key, nonce, pt) ==
  LET ct == [i \in 1..Len(pt) |->
               [k |-> "gcm_ct", n |-> pt[i].n,
                v |-> [key |-> key, nonce |-> nonce, pos |-> i, p |-> pt[i]]]]
  IN  [ct |-> ct, tag |-> <<GcmTag(key, nonce, ct)>>]

\* One wrap record: the content key wrapped for identity id, ciphertext and
\* tag together in wrapped_ck.
SealWrap(content_key, id, ephemeral, wrap_nonce) ==
  LET wk  == Enc_WrappingKey(ephemeral, Enc_KeyDeriver(id), id)
      enc == GcmEncrypt(wk, wrap_nonce, content_key)
  IN  JDict([recipient_solana_pub58 |-> JStr(id),
             eph_pub                |-> JB64(ephemeral),
             wrapped_ck             |-> JB64(enc.ct \o enc.tag),
             wrap_nonce             |-> JB64(wrap_nonce)])

\* The sizes the encrypting party uses; the envelope format fixes them at
\* 32 (content key), 12 (IV), 32 (ephemeral value) and 12 (wrap nonce).
StandardSizes == [ck |-> 32, iv |-> 12, eph |-> 32, wn |-> 12]

\* The envelope for plaintext pt and recipients ids: record i carries its own
\* ephemeral value and nonce; the payload tag is stored apart in cipher_tag.
SealEnvelope(pt, ids, sizes) ==
  LET content_key == <<Blob("content_key", 0, sizes.ck)>>
      cipher_iv   == <<Blob("cipher_iv", 0, sizes.iv)>>
      enc         == GcmEncrypt(content_key, cipher_iv, pt)
  IN  JDict([algo       |-> JStr(ALGO_AES_256_GCM),
             cipher_iv  |-> JB64(cipher_iv),
             cipher_tag |-> JB64(enc.tag),
             ciphertext |-> JB64(enc.ct),
             wraps      |-> JList([i \in 1..Len(ids) |->
                              SealWrap(content_key, ids[i],
                                       <<Blob("eph_pub", i, sizes.eph)>>,
                                       <<Blob("wrap_nonce", i, sizes.wn)>>)])])

\* base64(utf-8(json(doc))), as the envelope travels.
Transport(doc) ==
  JB64([ok |-> TRUE, v |-> [ok |-> TRUE, v |-> doc]])

\* b with one bit of unit pos changed.
FlipBit(b, pos, bit) ==
  [b EXCEPT ![pos] = [k |-> "flip", n |-> b[pos].n, v |-> [u |-> b[pos], bit |-> bit]]]

\* doc with one bit of the decoded bytes of a field changed: a field of the
\* envelope (wrap = 0) or of wrap record number wrap.
FlipField(doc, field, wrap, pos, bit) ==
  IF wrap = 0
  THEN JDict([doc.v EXCEPT ![field] = JB64(FlipBit(@.v.data, pos, bit))])
  ELSE JDict([doc.v EXCEPT !["wraps"] =
         JList([@.v EXCEPT ![wrap] =
           JDict([@.v EXCEPT ![field] = JB64(FlipBit(@.v.data, pos, bit))])])])

(***************************************************************************)
(* Inputs.                                                                 *)
(***************************************************************************)
MaxPlainLen == 2

MaxWraps == 2

FlipBits == 2

Runs == {1, 2}

\* "hello,world\n"
HELLO_WORLD == <<104,101,108,108,111,44,119,111,114,108,100,10>>

PlainText(n) == EncodeUtf8(Prefix(HELLO_WORLD, n))

NoFlip == [field |-> "", wrap |-> 0, pos |-> 0, bit |-> 0]

Scenario(kind, n, ids, sizes, flip, defect) ==
  [kind |-> kind, pt |-> PlainText(n), ids |-> ids, sizes |-> sizes,
   flip |-> flip, defect |-> defect]

IdLists == UNION {[1..n -> {IdA, IdB}] : n \in 0..MaxWraps}

\* Envelopes as the encrypting party builds them.
SealedScenarios ==
  {Scenario("sealed", n, ids, StandardSizes, NoFlip, "") :
     n \in 0..MaxPlainLen, ids \in IdLists}

\* Sealed envelopes with one bit of one decoded field changed.
FlippedScenarios ==
  {Scenario("flipped", n, ids, StandardSizes,
            [field |-> "ciphertext", wrap |-> 0, pos |-> pos, bit |-> bit], "") :
     n \in 1..MaxPlainLen, ids \in IdLists, pos \in 1..MaxPlainLen,
     bit \in 0..(FlipBits - 1)}
  \cup
  {Scenario("flipped", n, ids, StandardSizes,
            [field |-> "cipher_tag", wrap |-> 0, pos |-> 1, bit |-> bit], "") :
     n \in 0..MaxPlainLen, ids \in IdLists, bit \in 0..(FlipBits - 1)}
  \cup
  {Scenario("flipped", MaxPlainLen, ids, StandardSizes,
            [field |-> "wrapped_ck", wrap |-> w, pos |-> pos, bit |-> bit], "") :
     ids \in IdLists, w \in 1..MaxWraps, pos \in 1..2, bit \in 0..(FlipBits - 1)}
  \cup
  {Scenario("flipped", MaxPlainLen, ids, StandardSizes,
            [field |-> "wrap_nonce", wrap |-> w, pos |-> 1, bit |-> bit], "") :
     ids \in IdLists, w \in 1..MaxWraps, bit \in 0..(FlipBits - 1)}

\* Envelopes sealed with one size other than the format's.
OddSizes ==
  {[StandardSizes EXCEPT !.ck = x] : x \in {5, 16}}
  \cup {[StandardSizes EXCEPT !.iv = x] : x \in {4, 16}}
  \cup {[StandardSizes EXCEPT !.eph = x] : x \in {31, 33}}
  \cup {[StandardSizes EXCEPT !.wn = x] : x \in {4, 16}}

ResizedScenarios ==
  {Scenario("resized", MaxPlainLen, ids, sizes, NoFlip, "") :
     ids \in IdLists, sizes \in OddSizes}

Defects ==
  {"bad_padding", "junk_chars", "bad_utf8", "bad_json",
   "algo_128", "algo_number",
   "missing_algo", "missing_cipher_iv", "missing_cipher_tag",
   "missing_ciphertext", "missing_wraps",
   "doc_null", "doc_number", "doc_empty_list", "doc_list_of_names",
   "doc_string_of_names", "wraps_number", "wraps_null",
   "wrap_not_dict", "wrap_no_recipient", "wrap_recipient_number",
   "wrap_no_eph", "eph_bad_padding", "wrap_no_wrapped_ck", "wrap_no_nonce",
   "tag_not_string"}

MalformedScenarios ==
  {Scenario("malformed", MaxPlainLen, <<IdA>>, StandardSizes, NoFlip, d) :
     d \in Defects}

Without(m, key) == [f \in DOMAIN m \ {key} |-> m[f]]

\* doc with wrap record 1 replaced by w.
WithWrap(doc, w) == JDict([doc.v EXCEPT !["wraps"] = JList(<<w>>)])

\* The envelope text of a malformed scenario, made from the sealed document.
Malformed(doc, d) ==
  LET w == doc.v["wraps"].v[1] IN
  CASE d = "bad_padding" -> JB64Text(FALSE, 0, Transport(doc).v.data)
    [] d = "junk_chars"  -> JB64Text(TRUE, 3, Transport(doc).v.data)
    [] d = "bad_utf8"    -> JB64([ok |-> FALSE, v |-> [ok |-> TRUE, v |-> doc]])
    [] d = "bad_json"    -> JB64([ok |-> TRUE, v |-> [ok |-> FALSE, v |-> doc]])
    [] d = "algo_128"    ->
         Transport(JDict([doc.v EXCEPT !["algo"] =
                            JStr(<<65,69,83,45,49,50,56,45,71,67,77>>)]))
    [] d = "algo_number" -> Transport(JDict([doc.v EXCEPT !["algo"] = JNum(256)]))
    [] d = "missing_algo"       -> Transport(JDict(Without(doc.v, "algo")))
    [] d = "missing_cipher_iv"  -> Transport(JDict(Without(doc.v, "cipher_iv")))
    [] d = "missing_cipher_tag" -> Transport(JDict(Without(doc.v, "cipher_tag")))
    [] d = "missing_ciphertext" -> Transport(JDict(Without(doc.v, "ciphertext")))
    [] d = "missing_wraps"      -> Transport(JDict(Without(doc.v, "wraps")))
    [] d = "doc_null"           -> Transport(JNull)
    [] d = "doc_number"         -> Transport(JNum(1))
    [] d = "doc_empty_list"     -> Transport(JList(<<>>))
    [] d = "doc_list_of_names"  ->
         Transport(JList([i \in 1..Len(REQUIRED_FIELDS) |->
                            JStr(FieldText(REQUIRED_FIELDS[i]))]))
    [] d = "doc_string_of_names" ->
         Transport(JStr(FieldText("algo") \o FieldText("cipher_iv")
                        \o FieldText("cipher_tag") \o FieldText("ciphertext")
                        \o FieldText("wraps")))
    [] d = "wraps_number" -> Transport(JDict([doc.v EXCEPT !["wraps"] = JNum(1)]))
    [] d = "wraps_null"   -> Transport(JDict([doc.v EXCEPT !["wraps"] = JNull]))
    [] d = "wrap_not_dict" -> Transport(WithWrap(doc, JNum(1)))
    [] d = "wrap_no_recipient" ->
         Transport(WithWrap(doc, JDict(Without(w.v, "recipient_solana_pub58"))))
    [] d = "wrap_recipient_number" ->
         Transport(WithWrap(doc,
           JDict([w.v EXCEPT !["recipient_solana_pub58"] = JNum(1)])))
    [] d = "wrap_no_eph" -> Transport(WithWrap(doc, JDict(Without(w.v, "eph_pub"))))
    [] d = "eph_bad_padding" ->
         Transport(WithWrap(doc,
           JDict([w.v EXCEPT !["eph_pub"] = JB64Text(FALSE, 0, @.v.data)])))
    [] d = "wrap_no_wrapped_ck" ->
         Transport(WithWrap(doc, JDict(Without(w.v, "wrapped_ck"))))
    [] d = "wrap_no_nonce" ->
         Transport(WithWrap(doc, JDict(Without(w.v, "wrap_nonce"))))
    [] d = "tag_not_string" ->
         Transport(JDict([doc.v EXCEPT !["cipher_tag"] = JNum(1)]))

\* A flip names a unit the sealed envelope has.
FlipApplies(sc) ==
  /\ sc.flip.wrap <= Len(sc.ids)
  /\ sc.flip.field = "ciphertext" => sc.flip.pos <= Len(sc.pt)

\* The envelope text the decrypting party receives.
EnvelopeText(sc) ==
  LET doc == SealEnvelope(sc.pt, sc.ids, sc.sizes) IN
  CASE sc.kind \in {"sealed", "resized"} -> Transport(doc)
    [] sc.kind = "flipped" ->
         Transport(FlipField(doc, sc.flip.field, sc.flip.wrap, sc.flip.pos,
                             sc.flip.bit))
    [] sc.kind = "malformed" -> Malformed(doc, sc.defect)

Scenarios ==
  SealedScenarios \cup {sc \in FlippedScenarios : FlipApplies(sc)}
  \cup ResizedScenarios \cup MalformedScenarios

\* The command line's credentials: (public identifier, private credential).
Credentials ==
  {<<IdA, Priv1>>, <<IdB, Priv1>>, <<IdA2, Priv1>>, <<IdShort, Priv1>>,
   <<IdA, PrivShort>>}

(***************************************************************************)
(* The state machine: main() constructs a DatasetDecryptor and calls       *)
(* decrypt_dataset once.  Each variable is indexed by the run.             *)
(*   args    the arguments of the run                                      *)
(*   pc      where the run is                                              *)
(*   self    the fields of the DatasetDecryptor object                     *)
(*   frame   the local variables of decrypt_dataset                        *)
(*   result  what the run returned or raised                               *)
(*   trace   the functions entered and library calls attempted, in order   *)
(*   sender  what the encrypting party sealed, and what changed in transit *)
(***************************************************************************)
\* None where the variable otherwise holds bytes.
NoBytes == <<None>>

NoFrame ==
  [envelope |-> None, wrap |-> None, wrapping_key |-> NoBytes,
   content_key |-> NoBytes]

Arguments(cred, sc) ==
  [recipient_pubkey         |-> cred[1],
   recipient_private_key    |-> cred[2],
   encrypted_data           |-> <<Blob("encrypted_file", 0, 64)>>,
   encrypted_aes_key_base64 |-> EnvelopeText(sc)]

Returned(v) == [ok |-> TRUE, val |-> v, err |-> None]

Raised(e) == [ok |-> FALSE, val |-> NoBytes, err |-> e]

\* decryptor = DatasetDecryptor(args.recipient_pubkey, recipient_private_key)
Construct(r) ==
  /\ pc[r] = "new"
  /\ LET o == DatasetDecryptor_init(args[r].recipient_pubkey,
                                    args[r].recipient_private_key)
     IN  /\ trace' = [trace EXCEPT ![r] = @ \o <<"call:__init__">> \o o.ops]
         /\ IF o.ok
            THEN /\ self' = [self EXCEPT ![r] = o.val]
                 /\ pc' = [pc EXCEPT ![r] = "constructed"]
                 /\ UNCHANGED result
            ELSE /\ pc' = [pc EXCEPT ![r] = "raised"]
                 /\ result' = [result EXCEPT ![r] = Raised(o.err)]
                 /\ UNCHANGED self
  /\ UNCHANGED <<args, frame, sender>>

\* decrypt_dataset, step 1: envelope = self._parse_envelope(...)
ParseEnvelope(r) ==
  /\ pc[r] = "constructed"
  /\ LET o == _parse_envelope(args[r].encrypted_aes_key_base64)
     IN  /\ trace' = [trace EXCEPT ![r] =
                        @ \o <<"call:decrypt_dataset", "call:_parse_envelope">> \o o.ops]
         /\ IF o.ok
            THEN /\ frame' = [frame EXCEPT ![r].envelope = o.val]
                 /\ pc' = [pc EXCEPT ![r] = "parsed"]
                 /\ UNCHANGED result
            ELSE /\ pc' = [pc EXCEPT ![r] = "raised"]
                 /\ result' = [result EXCEPT ![r] = Raised(o.err)]
                 /\ UNCHANGED frame
  /\ UNCHANGED <<args, self, sender>>

\* step 2: wrap = self._find_recipient_wrap(envelope)
FindRecipientWrap(r) ==
  /\ pc[r] = "parsed"
  /\ LET o == _find_recipient_wrap(self[r], frame[r].envelope)
     IN  /\ trace' = [trace EXCEPT ![r] = @ \o <<"call:_find_recipient_wrap">> \o o.ops]
         /\ IF o.ok
            THEN /\ frame' = [frame EXCEPT ![r].wrap = o.val]
                 /\ pc' = [pc EXCEPT ![r] = "found"]
                 /\ UNCHANGED result
            ELSE /\ pc' = [pc EXCEPT ![r] = "raised"]
                 /\ result' = [result EXCEPT ![r] = Raised(o.err)]
                 /\ UNCHANGED frame
  /\ UNCHANGED <<args, self, sender>>

\* step 3: wrapping_key = self._derive_wrapping_key(wrap)
DeriveWrappingKey(r) ==
  /\ pc[r] = "found"
  /\ LET o == _derive_wrapping_key(self[r], frame[r].wrap)
     IN  /\ trace' = [trace EXCEPT ![r] = @ \o <<"call:_derive_wrapping_key">> \o o.ops]
         /\ IF o.ok
            THEN /\ frame' = [frame EXCEPT ![r].wrapping_key = o.val]
                 /\ pc' = [pc EXCEPT ![r] = "derived"]
                 /\ UNCHANGED result
            ELSE /\ pc' = [pc EXCEPT ![r] = "raised"]
                 /\ result' = [result EXCEPT ![r] = Raised(o.err)]
                 /\ UNCHANGED frame
  /\ UNCHANGED <<args, self, sender>>

\* Step 4 tried a second time when it fails.
Mutant_DecryptContentKey_retry(r) ==
  /\ pc[r] = "derived"
  /\ LET o == _decrypt_content_key(frame[r].wrap, frame[r].wrapping_key)
     IN  /\ trace' = [trace EXCEPT ![r] = @ \o <<"call:_decrypt_content_key">> \o o.ops]
         /\ IF o.ok
            THEN /\ frame' = [frame EXCEPT ![r].content_key = o.val]
                 /\ pc' = [pc EXCEPT ![r] = "unwrapped"]
                 /\ UNCHANGED result
            ELSE IF \A i \in 1..Len(trace[r]) :
                      trace[r][i] # "call:_decrypt_content_key"
            THEN UNCHANGED <<pc, result, frame>>
            ELSE /\ pc' = [pc EXCEPT ![r] = "raised"]
                 /\ result' = [result EXCEPT ![r] = Raised(o.err)]
                 /\ UNCHANGED frame
  /\ UNCHANGED <<args, self, sender>>

\* step 4: content_key = self._decrypt_content_key(wrap, wrapping_key)
DecryptContentKey(r) ==
  /\ pc[r] = "derived"
  /\ LET o == _decrypt_content_key(frame[r].wrap, frame[r].wrapping_key)
     IN  /\ trace' = [trace EXCEPT ![r] = @ \o <<"call:_decrypt_content_key">> \o o.ops]
         /\ IF o.ok
            THEN /\ frame' = [frame EXCEPT ![r].content_key = o.val]
                 /\ pc' = [pc EXCEPT ![r] = "unwrapped"]
                 /\ UNCHANGED result
            ELSE /\ pc' = [pc EXCEPT ![r] = "raised"]
                 /\ result' = [result EXCEPT ![r] = Raised(o.err)]
                 /\ UNCHANGED frame
  /\ UNCHANGED <<args, self, sender>>

\* step 5: decrypted_data = self._decrypt_data(envelope, content_key);
\* return decrypted_data
DecryptData(r) ==
  /\ pc[r] = "unwrapped"
  /\ LET o == _decrypt_data(frame[r].envelope, frame[r].content_key)
     IN  IF o.ok
         THEN /\ trace' = [trace EXCEPT ![r] =
                             @ \o <<"call:_decrypt_data">> \o o.ops \o <<"return">>]
              /\ pc' = [pc EXCEPT ![r] = "returned"]
              /\ result' = [result EXCEPT ![r] = Returned(o.val)]
         ELSE /\ trace' = [trace EXCEPT ![r] = @ \o <<"call:_decrypt_data">> \o o.ops]
              /\ pc' = [pc EXCEPT ![r] = "raised"]
              /\ result' = [result EXCEPT ![r] = Raised(o.err)]
  /\ UNCHANGED <<args, self, frame, sender>>

\* One run of the program; run 2 does not exist.
Init ==
  \E cred \in Credentials, sc \in Scenarios :
    /\ args   = [r \in Runs |-> IF r = 1 THEN Arguments(cred, sc) ELSE None]
    /\ sender = [r \in Runs |-> IF r = 1 THEN sc ELSE None]
    /\ pc     = [r \in Runs |-> IF r = 1 THEN "new" ELSE "absent"]
    /\ self   = [r \in Runs |-> None]
    /\ frame  = [r \in Runs |-> NoFrame]
    /\ result = [r \in Runs |-> None]
    /\ trace  = [r \in Runs |-> <<>>]

Next ==
  \/ Construct(1)
  \/ ParseEnvelope(1)
  \/ FindRecipientWrap(1)
  \/ DeriveWrappingKey(1)
  \/ DecryptContentKey(1)
  \/ DecryptData(1)

Spec == Init /\ [][Next]_vars

(***************************************************************************)
(* Two runs of the program side by side, each with arguments of its own;   *)
(* they share nothing, and their steps interleave freely.                  *)
(***************************************************************************)
PairCredentials ==
  {<<IdA, Priv1>>, <<IdA, Priv2>>, <<IdB, Priv1>>, <<IdA2, Priv1>>,
   <<IdA, PrivShort>>}

PairScenarios ==
  {Scenario("sealed", 1, <<IdA>>, StandardSizes, NoFlip, ""),
   Scenario("sealed", 0, <<IdB, IdA>>, StandardSizes, NoFlip, ""),
   Scenario("sealed", 1, <<IdA2, IdB>>, StandardSizes, NoFlip, ""),
   Scenario("flipped", 1, <<IdA>>, StandardSizes,
            [field |-> "wrapped_ck", wrap |-> 1, pos |-> 1, bit |-> 0], ""),
   Scenario("resized", 1, <<IdA>>, [StandardSizes EXCEPT !.eph = 31], NoFlip, "")}

InitPair ==
  \E c1 \in PairCredentials, c2 \in PairCredentials,
     s1 \in PairScenarios, s2 \in PairScenarios :
    /\ args   = [r \in Runs |-> IF r = 1 THEN Arguments(c1, s1)
                                         ELSE Arguments(c2, s2)]
    /\ sender = [r \in Runs |-> IF r = 1 THEN s1 ELSE s2]
    /\ pc     = [r \in Runs |-> "new"]
    /\ self   = [r \in Runs |-> None]
    /\ frame  = [r \in Runs |-> NoFrame]
    /\ result = [r \in Runs |-> None]
    /\ trace  = [r \in Runs |-> <<>>]

NextPair ==
  \E r \in Runs :
    \/ Construct(r)
    \/ ParseEnvelope(r)
    \/ FindRecipientWrap(r)
    \/ DeriveWrappingKey(r)
    \/ DecryptContentKey(r)
    \/ DecryptData(r)

SpecPair == InitPair /\ [][NextPair]_vars

(***************************************************************************)
(* What the properties read off a run.                                     *)
(***************************************************************************)
Done(r) == pc[r] \in {"returned", "raised"}

Occurs(x, s) == \E i \in 1..Len(s) : s[i] = x

Count(x, s) == Cardinality({i \in 1..Len(s) : s[i] = x})

\* The run was constructed: decrypt_dataset is called on an object.
Constructed(r) == self[r] # None

\* The run's identity is the recipient of a wrap record the sender sealed.
IsRecipient(r) ==
  \E i \in 1..Len(sender[r].ids) : sender[r].ids[i] = args[r].recipient_pubkey

\* The envelope came out of _parse_envelope.
Parsed(r) == frame[r].envelope # None

\* The run ended in the error _parse_envelope raises.
ParseFailure(r) ==
  /\ pc[r] = "raised"
  /\ ~ Parsed(r)
  /\ result[r].err.type = "ValueError"
  /\ result[r].err.msg = "Failed to parse encryption envelope"
  /\ result[r].err.cause # None

\* The cause _parse_envelope reports for a defect of the envelope text.
CauseOf(defect) ==
  CASE defect = "bad_padding" -> "binascii.Error"
    [] defect = "bad_utf8"    -> "UnicodeDecodeError"
    [] defect = "bad_json"    -> "JSONDecodeError"
    [] defect \in {"missing_algo", "missing_cipher_iv", "missing_cipher_tag",
                   "missing_ciphertext", "missing_wraps", "algo_128",
                   "algo_number", "doc_empty_list"} -> "ValueError"
    [] OTHER -> "TypeError"

ParseDefects ==
  {"bad_padding", "bad_utf8", "bad_json", "missing_algo", "missing_cipher_iv",
   "missing_cipher_tag", "missing_ciphertext", "missing_wraps", "algo_128",
   "algo_number", "doc_null", "doc_number", "doc_empty_list",
   "doc_list_of_names", "doc_string_of_names", "wraps_number", "wraps_null"}

\* The position of the first wrap record sealed for the run's identity.
FirstIndex(r) ==
  CHOOSE i \in 1..Len(sender[r].ids) :
    /\ sender[r].ids[i] = args[r].recipient_pubkey
    /\ \A j \in 1..(i - 1) : sender[r].ids[j] # args[r].recipient_pubkey

\* The changed bit is in a field decryption for the run reads: the
\* envelope's ciphertext or cipher_tag, or wrapped_ck or wrap_nonce of the
\* run's wrap record.
FlipHitsCaller(r) ==
  \/ sender[r].flip.field \in {"ciphertext", "cipher_tag"}
  \/ /\ sender[r].flip.field \in {"wrapped_ck", "wrap_nonce"}
     /\ sender[r].flip.wrap = FirstIndex(r)

IsStep(x) ==
  x \in {"call:_derive_x25519_from_ed25519", "call:_parse_envelope",
         "call:_find_recipient_wrap", "call:_derive_wrapping_key",
         "call:_decrypt_content_key", "call:_decrypt_data"}

\* The steps the run entered, in order.
Steps(r) == SelectSeq(trace[r], IsStep)

CryptoOps == {"sha256", "x25519_keygen", "AESGCM", "aesgcm_decrypt"}

\* The position of x in s (0 when it does not occur).
IndexOf(x, s) ==
  IF Occurs(x, s) THEN CHOOSE i \in 1..Len(s) :
                         s[i] = x /\ \A j \in 1..(i - 1) : s[j] # x
  ELSE 0

(***************************************************************************)
(* C1.  Round trip: when the envelope is the one the encrypting party      *)
(* seals (the same derivation chain, the content key wrapped under the     *)
(* wrapping key, the payload tag apart in cipher_tag) and the caller is    *)
(* one of its recipients, no step of decrypt_dataset fails and what it     *)
(* returns is exactly the plaintext that was sealed.                       *)
(***************************************************************************)
C1_RoundTrip ==
  \A r \in Runs :
    (pc[r] # "absent" /\ Constructed(r) /\ sender[r].kind = "sealed"
       /\ IsRecipient(r))
    => /\ pc[r] # "raised"
       /\ pc[r] = "returned" =>
            result[r].ok /\ result[r].val = sender[r].pt

\* A two-byte plaintext sealed for two recipients came back to the second.
C1_Witness ==
  /\ pc[1] = "returned"
  /\ sender[1].kind = "sealed"
  /\ sender[1].ids = <<IdB, IdA>>
  /\ args[1].recipient_pubkey = IdA
  /\ Len(sender[1].pt) = 2
  /\ result[1].val = sender[1].pt

(***************************************************************************)
(* C6.  Unified parse failure: once _parse_envelope has run, either the    *)
(* envelope it returned is a dictionary with the five fields algo,         *)
(* cipher_iv, cipher_tag, ciphertext, wraps and algo "AES-256-GCM", or the *)
(* call ended in the one parse-failure error, which carries its cause;     *)
(* bad base64, bad UTF-8, malformed JSON, a missing field and an           *)
(* unsupported algorithm each end in that error, with the cause of their   *)
(* own.                                                                    *)
(***************************************************************************)
C6_UnifiedParseFailure ==
  \A r \in Runs :
    Occurs("call:_parse_envelope", trace[r])
    => /\ \/ /\ Parsed(r)
             /\ frame[r].envelope.k = "dict"
             /\ \A i \in 1..Len(REQUIRED_FIELDS) :
                   REQUIRED_FIELDS[i] \in DOMAIN frame[r].envelope.v
             /\ frame[r].envelope.v["algo"] = JStr(ALGO_AES_256_GCM)
          \/ ParseFailure(r)
       /\ sender[r].defect \in ParseDefects
            => ParseFailure(r)
               /\ result[r].err.cause.type = CauseOf(sender[r].defect)

\* Bad UTF-8 ended in the parse failure, the decoder's error as its cause.
C6_Witness ==
  /\ sender[1].defect = "bad_utf8"
  /\ ParseFailure(1)
  /\ result[1].err.cause.type = "UnicodeDecodeError"
  /\ trace[1][Len(trace[1])] = "utf8_decode"

(***************************************************************************)
(* C2.  Tamper rejection: take an envelope that decrypts for the caller    *)
(* and change one bit of a decoded field.  When the field is the           *)
(* envelope's ciphertext or cipher_tag, or wrapped_ck or wrap_nonce of the *)
(* wrap record used for the caller, the call never returns and its         *)
(* failure is the AEAD's authentication error; whatever field it is, a     *)
(* plaintext other than the original is never returned.                    *)
(***************************************************************************)
C2_TamperRejected ==
  \A r \in Runs :
    (pc[r] # "absent" /\ Constructed(r) /\ sender[r].kind = "flipped"
       /\ IsRecipient(r))
    => /\ pc[r] = "returned" => result[r].val = sender[r].pt
       /\ FlipHitsCaller(r)
            => /\ pc[r] # "returned"
               /\ pc[r] = "raised" => result[r].err.type = "InvalidTag"

\* A changed bit of the second byte of the ciphertext was caught by the tag.
C2_Witness ==
  /\ pc[1] = "raised"
  /\ sender[1].kind = "flipped"
  /\ sender[1].flip.field = "ciphertext"
  /\ sender[1].flip.pos = 2
  /\ IsRecipient(1)
  /\ result[1].err.type = "InvalidTag"
  /\ Steps(1)[Len(Steps(1))] = "call:_decrypt_data"

(***************************************************************************)
(* C3.  Length validation precedes cryptography: a public key that decodes *)
(* to other than 32 bytes, an eph_pub that decodes to other than 32 bytes  *)
(* and a wrap_nonce or cipher_iv that decodes to other than 12 bytes each  *)
(* end the run in an error, and no hash, curve key generation or AEAD      *)
(* decryption was attempted on that run.                                   *)
(***************************************************************************)
C3_LengthValidationFirst ==
  \A r \in Runs :
    (/\ Done(r)
     /\ \/ ByteLen(b58decode(args[r].recipient_pubkey).val) # 32
        \/ /\ Constructed(r) /\ IsRecipient(r) /\ sender[r].kind = "resized"
           /\ \/ sender[r].sizes.eph # 32
              \/ sender[r].sizes.wn # 12
              \/ sender[r].sizes.iv # 12)
    => /\ pc[r] = "raised"
       /\ \A i \in 1..Len(trace[r]) : trace[r][i] \notin CryptoOps

C5_OnlyTruncatedIdentifiers ==
  \A r \in Runs :
    (/\ Occurs("call:_find_recipient_wrap", trace[r])
     /\ sender[r].kind # "malformed"
     /\ ~ IsRecipient(r))
    => /\ pc[r] = "raised"
       /\ result[r].err.type = "ValueError"
       /\ result[r].err.msg = "No key wrap found for recipient"
       /\ Steps(r)[Len(Steps(r))] = "call:_find_recipient_wrap"
       /\ \A i \in 1..Len(result[r].err.shown) :
            /\ ~ IsSubstring(args[r].recipient_pubkey, result[r].err.shown[i])
            /\ \A j \in 1..Len(sender[r].ids) :
                 ~ IsSubstring(sender[r].ids[j], result[r].err.shown[i])

(***************************************************************************)
(* C10.  First-match lookup: the wrap record _find_recipient_wrap returns  *)
(* is the earliest record of the envelope whose recipient identity equals  *)
(* the caller's identity as a string; the lookup and the unwrapping each   *)
(* run once, so when the earliest matching record does not unwrap the call *)
(* fails, and a later matching record is not tried.                        *)
(***************************************************************************)
C10_FirstMatch ==
  \A r \in Runs :
    /\ frame[r].wrap # None
         => LET ws == frame[r].envelope.v["wraps"].v IN
            \E i \in 1..Len(ws) :
              /\ ws[i] = frame[r].wrap
              /\ ws[i].v["recipient_solana_pub58"] = JStr(args[r].recipient_pubkey)
              /\ \A j \in 1..(i - 1) :
                   ws[j].v["recipient_solana_pub58"] # JStr(args[r].recipient_pubkey)
    /\ Count("call:_find_recipient_wrap", trace[r]) <= 1
    /\ Count("call:_decrypt_content_key", trace[r]) <= 1
    /\ (pc[r] # "absent" /\ Constructed(r) /\ IsRecipient(r)
          /\ sender[r].kind = "flipped"
          /\ sender[r].flip.field \in {"wrapped_ck", "wrap_nonce"})
         => IF sender[r].flip.wrap = FirstIndex(r)
            THEN pc[r] # "returned"
            ELSE pc[r] # "raised"

\* Two records for the caller, the first with a changed bit: the call
\* failed on the first and did not unwrap the second.
C10_Witness ==
  /\ pc[1] = "raised"
  /\ sender[1].ids = <<IdA, IdA>>
  /\ args[1].recipient_pubkey = IdA
  /\ sender[1].flip.field = "wrapped_ck"
  /\ sender[1].flip.wrap = 1
  /\ result[1].err.type = "InvalidTag"
  /\ frame[1].wrap = frame[1].envelope.v["wraps"].v[1]
  /\ frame[1].wrap # frame[1].envelope.v["wraps"].v[2]
  /\ Count("call:_decrypt_content_key", trace[1]) = 1

CodeOrder ==
  <<"call:_derive_x25519_from_ed25519", "call:_parse_envelope",
    "call:_find_recipient_wrap", "call:_derive_wrapping_key",
    "call:_decrypt_content_key", "call:_decrypt_data">>

\* What the step the run entered last gives on the values the run holds.
StepOutcome(r) ==
  LET last == IF Len(Steps(r)) = 0 THEN "" ELSE Steps(r)[Len(Steps(r))] IN
  CASE last = "call:_parse_envelope" ->
         _parse_envelope(args[r].encrypted_aes_key_base64)
    [] last = "call:_find_recipient_wrap" ->
         _find_recipient_wrap(self[r], frame[r].envelope)
    [] last = "call:_derive_wrapping_key" ->
         _derive_wrapping_key(self[r], frame[r].wrap)
    [] last = "call:_decrypt_content_key" ->
         _decrypt_content_key(frame[r].wrap, frame[r].wrapping_key)
    [] last = "call:_decrypt_data" ->
         _decrypt_data(frame[r].envelope, frame[r].content_key)
    [] OTHER ->
         DatasetDecryptor_init(args[r].recipient_pubkey,
                               args[r].recipient_private_key)

\* How many of the local variables of decrypt_dataset are set.
FramesSet(r) ==
  Cardinality({f \in {"envelope", "wrap", "wrapping_key", "content_key"} :
                 frame[r][f] # NoFrame[f]})

PrivateKeyLen(r) == ByteLen(b58decode(args[r].recipient_private_key).val)

(***************************************************************************)
(* C8.  Private credential non-interference: two runs with the same public *)
(* identifier, envelope and encrypted-file bytes, and private credentials  *)
(* that both decode to 64 bytes, hold the same object, the same keys, the  *)
(* same result (plaintext or error) and the same sequence of calls         *)
(* whenever they are at the same step; a private credential that does not  *)
(* decode to 64 bytes ends the run in the constructor, before anything is  *)
(* derived.                                                                *)
(***************************************************************************)
C8_PrivateCredentialNonInterference ==
  /\ (/\ pc[1] # "absent" /\ pc[2] # "absent"
      /\ args[1].recipient_pubkey = args[2].recipient_pubkey
      /\ args[1].encrypted_aes_key_base64 = args[2].encrypted_aes_key_base64
      /\ args[1].encrypted_data = args[2].encrypted_data
      /\ PrivateKeyLen(1) = 64 /\ PrivateKeyLen(2) = 64
      /\ pc[1] = pc[2])
     => /\ self[1] = self[2]
        /\ frame[1] = frame[2]
        /\ result[1] = result[2]
        /\ trace[1] = trace[2]
  /\ \A r \in Runs :
       (pc[r] \notin {"absent", "new"} /\ PrivateKeyLen(r) # 64)
       => /\ pc[r] = "raised"
          /\ result[r].err.msg = "Invalid private key length"
          /\ self[r] = None
          /\ Steps(r) = <<>>

\* Two runs that differ in the private credential alone both returned, the
\* same plaintext from the same keys.
C8_Witness ==
  /\ args[1].recipient_private_key = Priv1
  /\ args[2].recipient_private_key = Priv2
  /\ args[1].recipient_pubkey = args[2].recipient_pubkey
  /\ args[1].encrypted_aes_key_base64 = args[2].encrypted_aes_key_base64
  /\ pc[1] = "returned" /\ pc[2] = "returned"
  /\ result[1] = result[2]
  /\ self[1].recipient_x25519_pubkey = self[2].recipient_x25519_pubkey
  /\ frame[1].content_key = frame[2].content_key

\* The values the wrapping key of a run is derived from, and the key.
EphemeralOf(r) == frame[r].wrap.v["eph_pub"].v.data

DerivedOf(r) == self[r].recipient_x25519_pubkey

First8Of(r) == Prefix(self[r].recipient_pubkey, 8)

\* H(H(e || d) || "zdatar:ck-wrap" ":" t8)
StatedWrappingKey(e, d, t8) ==
  LET H(x)  == <<[k |-> "sha256", n |-> 32, v |-> x]>>
      label == <<122,100,97,116,97,114,58,99,107,45,119,114,97,112>>
      info  == [i \in 1..(Len(label) + 1 + Len(t8)) |->
                  [k |-> "byte", n |-> 1,
                   v |-> IF i <= Len(label) THEN label[i]
                         ELSE IF i = Len(label) + 1 THEN 58
                         ELSE t8[i - Len(label) - 1]]]
  IN  H(H(e \o d) \o info)

====
